---- MODULE Spec2Model ----
(***************************************************************************)
(* Model of LineupOptimizer (lineup_optimizer.py): the candidate pool, the *)
(* five strategy builders, create_lineup_object, validate_lineup and the   *)
(* batch loop of generate_lineups.                                         *)
(*                                                                         *)
(* Representation.                                                         *)
(*  - A pool is a sequence of entry records.  The python dicts of the pool *)
(*    are shared by reference: a selection ("selected", lineup['players']) *)
(*    is a sequence of INDICES into the pool, so that what a lineup shows   *)
(*    of its entries is whatever the pool dicts hold at that moment.       *)
(*  - projection is kept in tenths (52.5 -> 525), so sums are exact.       *)
(*  - A dict key that is absent is modelled as follows: 'value' of an      *)
(*    entry is <<>> until build_value_lineup writes it, and then the       *)
(*    quotient projection / (salary / 1000) as <<numerator, denominator>>; *)
(*    'strategy' and 'number' of a lineup are record fields that exist     *)
(*    only once generate_lineups has written them.                         *)
(*  - None is <<>>.                                                        *)
(***************************************************************************)
EXTENDS Integers, Sequences, FiniteSets, TLC

VARIABLES player_pool, loaded, pc, count, i, lineups, call, ret

vars == <<player_pool, loaded, pc, count, i, lineups, call, ret>>

(***************************************************************************)
(* Bounds of the model                                                     *)
(***************************************************************************)
\* largest count passed to generate_lineups
MaxCount == 6
\* a pool is a base pool with at most this many entries left out
MaxDrop == 2

(***************************************************************************)
(* Program constants                                                       *)
(***************************************************************************)
salary_cap == 50000
ROSTER_SIZE == 6
HIGH_SALARY == 9000
MID_SALARY == 6000
MIN_PROJECTION == 200
MIN_GUARDS == 2
MIN_FORWARDS == 3
STACK_FIRST == 3
STACK_SECOND == 2
MID_PICKS == 3

None == <<>>

strategies == <<"Ceiling", "Balanced", "Contrarian", "Game Stack", "Value">>

Entry(n, pos, sal, proj, tm, own, gm) ==
  [name |-> n, position |-> pos, salary |-> sal, projection |-> proj,
   team |-> tm, ownership |-> own, game |-> gm, value |-> <<>>]

load_player_pool ==
  << Entry("A'ja Wilson",       "F", 11800, 525, "LVA",  35, "vs CONN"),
     Entry("Breanna Stewart",   "F", 10500, 458, "NYL",  32, "vs MIN"),
     Entry("Sabrina Ionescu",   "G",  9200, 382, "NYL",  28, "vs MIN"),
     Entry("Napheesa Collier",  "F",  8800, 413, "MIN",  22, "@ NYL"),
     Entry("Kelsey Plum",       "G",  7800, 328, "LVA",  18, "vs CONN"),
     Entry("Alyssa Thomas",     "F",  7200, 354, "CONN", 15, "@ LVA"),
     Entry("Paige Bueckers",    "G",  7200, 357, "DAL",  20, "vs WSH"),
     Entry("DeWanna Bonner",    "F",  6900, 321, "CONN", 12, "@ LVA"),
     Entry("Jackie Young",      "G",  6800, 295, "LVA",  14, "vs CONN"),
     Entry("Kayla McBride",     "G",  5400, 268, "MIN",  10, "@ NYL"),
     Entry("Courtney Williams", "G",  3900, 242, "MIN",   8, "@ NYL"),
     Entry("Briann January",    "G",  4200, 189, "CONN",  6, "@ LVA") >>

(***************************************************************************)
(* Other pools handed to the engine: one whose most expensive entry takes  *)
(* most of the cap, one in which no six entries fit under the cap, one     *)
(* with a single entry near the cap, the empty pool, and (below) a shorter *)
(* slate of the reference pool.                                            *)
(***************************************************************************)
TopHeavyPool ==
  << Entry("H1", "F", 30000, 600, "LVA",  40, "vs CONN"),
     Entry("M1", "F",  8000, 300, "CONN", 20, "@ LVA"),
     Entry("M2", "G",  8000, 280, "LVA",  20, "vs CONN"),
     Entry("M3", "F",  7000, 200, "NYL",  10, "vs MIN"),
     Entry("M4", "G",  6000, 250, "MIN",  10, "@ NYL"),
     Entry("V1", "G",  2000, 210, "NYL",   5, "vs MIN"),
     Entry("V2", "F",  1000, 199, "MIN",   5, "@ NYL"),
     Entry("V3", "G",  1500, 220, "DAL",   3, "vs WSH") >>

PriceyPool ==
  << Entry("P1", "F", 12000, 500, "LVA",  30, "vs CONN"),
     Entry("P2", "G", 11000, 450, "NYL",  25, "vs MIN"),
     Entry("P3", "F",  9500, 400, "CONN", 20, "@ LVA"),
     Entry("P4", "G",  9000, 380, "MIN",  18, "@ NYL"),
     Entry("P5", "F",  8800, 360, "LVA",  15, "vs CONN"),
     Entry("P6", "G",  8600, 340, "NYL",  12, "vs MIN"),
     Entry("P7", "F",  8400, 330, "MIN",  10, "@ NYL") >>

\* one entry that takes nine tenths of the cap, among cheap ones
StarPool ==
  << Entry("S1", "F", 45000, 400, "LVA",  30, "vs CONN"),
     Entry("A1", "G",  1000, 150, "NYL",   4, "vs MIN"),
     Entry("A2", "G",  2000, 250, "MIN",   6, "@ NYL"),
     Entry("A3", "F",  3000, 300, "CONN",  8, "@ LVA"),
     Entry("A4", "F",  4000, 350, "LVA",   8, "vs CONN"),
     Entry("A5", "F",  5000,  40, "NYL",  12, "vs MIN"),
     Entry("A6", "G",  6000,  42, "MIN",  15, "@ NYL") >>

EmptyPool == <<>>

\* the members of the set S of numbers, in increasing order
Ascending(S) ==
  [k \in 1..Cardinality(S) |->
     CHOOSE x \in S : Cardinality({y \in S : y < x}) = k - 1]

\* base without the entries at the positions in D
SubPool(base, D) ==
  LET kept == Ascending((1..Len(base)) \ D)
  IN  [k \in 1..Len(kept) |-> base[kept[k]]]

SubPools(base) ==
  { SubPool(base, D) :
      D \in { S \in SUBSET (1..Len(base)) : Cardinality(S) <= MaxDrop } }

\* a slate without A'ja Wilson, Kelsey Plum and Paige Bueckers
ShortSlatePool == SubPool(load_player_pool, {1, 5, 7})

BasePools ==
  {load_player_pool, ShortSlatePool, TopHeavyPool, PriceyPool, StarPool,
   EmptyPool}

Pools == UNION { SubPools(base) : base \in BasePools }

(***************************************************************************)
(* Helpers: python's sum, sorted and slice, over sequences of pool indices; *)
(* a list comprehension with a test is SelectSeq.                          *)
(***************************************************************************)
RECURSIVE SumOver(_, _, _)
SumOver(players, sel, field) ==
  IF sel = <<>> THEN 0
  ELSE players[Head(sel)][field] + SumOver(players, Tail(sel), field)

Range(s) == { s[k] : k \in DOMAIN s }

\* range(len(players)): the pool in its own order
Indices(players) == [k \in 1..Len(players) |-> k]

\* sorted(): stable; before[a, b] is "the key of a sorts strictly before
\* the key of b".  Elements with equal keys keep their order in idxs (also
\* with reverse=True).
Sorted(idxs, before) ==
  LET n == Len(idxs)
      \* how many elements come out ahead of the k-th one
      rank == [k \in 1..n |->
                 Cardinality({ j \in 1..n :
                    \/ before[idxs[j], idxs[k]]
                    \/ (~before[idxs[k], idxs[j]] /\ j < k) })]
  IN  [r \in 1..n |-> idxs[CHOOSE k \in 1..n : rank[k] = r - 1]]

\* s[:n]
Take(s, n) == SubSeq(s, 1, IF Len(s) < n THEN Len(s) ELSE n)

(***************************************************************************)
(* The sort keys, as relations between two positions of the pool           *)
(***************************************************************************)
\* key=projection, reverse=True
ByProjection(players) ==
  [a \in DOMAIN players, b \in DOMAIN players |->
     players[a].projection > players[b].projection]

\* key=projection / salary * 1000, reverse=True; compared as a quotient
ByPerDollar(players) ==
  [a \in DOMAIN players, b \in DOMAIN players |->
     players[a].projection * players[b].salary
       > players[b].projection * players[a].salary]

\* key=ownership
ByOwnership(players) ==
  [a \in DOMAIN players, b \in DOMAIN players |->
     players[a].ownership < players[b].ownership]

\* variant: reverse=True is missing
ByValue_Ascending(players) ==
  [a \in DOMAIN players, b \in DOMAIN players |->
     players[a].value[1] * players[b].value[2]
       < players[b].value[1] * players[a].value[2]]

\* key=value, reverse=True; the quotients are compared
ByValue(players) ==
  [a \in DOMAIN players, b \in DOMAIN players |->
     players[a].value[1] * players[b].value[2]
       > players[b].value[1] * players[a].value[2]]

(***************************************************************************)
(* create_lineup_object: None unless exactly six entries were selected     *)
(***************************************************************************)
\* variant: the test of the number of entries is missing
create_lineup_object_NoLen(players, selected) ==
  LET total_salary == SumOver(players, selected, "salary")
  IN  [players          |-> selected,
       salary           |-> total_salary,
       projection       |-> SumOver(players, selected, "projection"),
       ownership        |-> <<SumOver(players, selected, "ownership"),
                              Len(selected)>>,
       salary_remaining |-> salary_cap - total_salary]

create_lineup_object(players, selected) ==
  IF Len(selected) # ROSTER_SIZE THEN None
  ELSE LET total_salary == SumOver(players, selected, "salary")
       IN  [players          |-> selected,
            salary           |-> total_salary,
            projection       |-> SumOver(players, selected, "projection"),
            ownership        |-> <<SumOver(players, selected, "ownership"),
                                   Len(selected)>>,
            salary_remaining |-> salary_cap - total_salary]

(***************************************************************************)
(* build_ceiling_lineup                                                    *)
(***************************************************************************)
\* variant: the loop does not look at the salary cap
RECURSIVE CeilingLoop_NoBudget(_, _, _, _)
CeilingLoop_NoBudget(players, order, selected, total_salary) ==
  IF order = <<>> THEN selected
  ELSE LET player == Head(order)
       IN  IF Len(selected) < ROSTER_SIZE
           THEN CeilingLoop_NoBudget(players, Tail(order),
                                     Append(selected, player),
                                     total_salary + players[player].salary)
           ELSE CeilingLoop_NoBudget(players, Tail(order), selected,
                                     total_salary)

\* with the entries of selected picked, the slots left cannot bring the
\* lineup to 2 guards and 3 forwards
RolesUnreachable(players, selected) ==
  LET guards   == Cardinality({ k \in DOMAIN selected :
                                  players[selected[k]].position = "G" })
      forwards == Cardinality({ k \in DOMAIN selected :
                                  players[selected[k]].position = "F" })
      missing  == (IF guards < MIN_GUARDS THEN MIN_GUARDS - guards ELSE 0)
                  + (IF forwards < MIN_FORWARDS THEN MIN_FORWARDS - forwards
                                                ELSE 0)
  IN  missing > ROSTER_SIZE - Len(selected)

\* variant: an entry is also passed over once the position requirements
\* cannot be met any more
RECURSIVE CeilingLoop_RoleAware(_, _, _, _)
CeilingLoop_RoleAware(players, order, selected, total_salary) ==
  IF order = <<>> THEN selected
  ELSE LET player == Head(order)
       IN  IF /\ Len(selected) < ROSTER_SIZE
              /\ total_salary + players[player].salary <= salary_cap
              /\ ~RolesUnreachable(players, selected)
           THEN CeilingLoop_RoleAware(players, Tail(order),
                                      Append(selected, player),
                                      total_salary + players[player].salary)
           ELSE CeilingLoop_RoleAware(players, Tail(order), selected,
                                      total_salary)

RECURSIVE CeilingLoop(_, _, _, _)
CeilingLoop(players, order, selected, total_salary) ==
  IF order = <<>> THEN selected
  ELSE LET player == Head(order)
       IN  IF /\ Len(selected) < ROSTER_SIZE
              /\ total_salary + players[player].salary <= salary_cap
           THEN CeilingLoop(players, Tail(order), Append(selected, player),
                            total_salary + players[player].salary)
           ELSE CeilingLoop(players, Tail(order), selected, total_salary)

\* variant: the pool is walked from the cheapest entry up
CeilingSelected_CheapestFirst(players) ==
  LET cheaper == [a \in DOMAIN players, b \in DOMAIN players |->
                    players[a].salary < players[b].salary]
  IN  CeilingLoop(players, Sorted(Indices(players), cheaper), <<>>, 0)

\* variant: the pool is walked in its own order
CeilingSelected_Unsorted(players) ==
  CeilingLoop(players, Indices(players), <<>>, 0)

CeilingSelected(players) ==
  LET sorted_players == Sorted(Indices(players), ByProjection(players))
  IN  CeilingLoop(players, sorted_players, <<>>, 0)

build_ceiling_lineup(players) ==
  create_lineup_object(players, CeilingSelected(players))

(***************************************************************************)
(* build_balanced_lineup                                                   *)
(***************************************************************************)
\* max(idxs, key=projection): the first entry of maximal projection
MaxByProjection(players, idxs) ==
  idxs[CHOOSE k \in DOMAIN idxs :
         /\ \A j \in DOMAIN idxs :
              players[idxs[j]].projection <= players[idxs[k]].projection
         /\ \A j \in 1..(k - 1) :
              players[idxs[j]].projection < players[idxs[k]].projection]

RECURSIVE BalancedLoop(_, _, _, _)
BalancedLoop(players, order, selected, remaining_salary) ==
  IF order = <<>> THEN selected
  ELSE LET player == Head(order)
       IN  IF /\ Len(selected) < ROSTER_SIZE
              /\ players[player].salary <= remaining_salary
           THEN BalancedLoop(players, Tail(order), Append(selected, player),
                             remaining_salary - players[player].salary)
           ELSE BalancedLoop(players, Tail(order), selected, remaining_salary)

\* variant: the mid-salary entries are ranked by projection alone
BalancedFirstPicks_MidByProjection(players) ==
  LET IsHigh(p) == players[p].salary >= HIGH_SALARY
      IsMid(p)  == MID_SALARY <= players[p].salary
                   /\ players[p].salary < HIGH_SALARY
      high_salary == SelectSeq(Indices(players), IsHigh)
      mid_salary  == SelectSeq(Indices(players), IsMid)
      mid_sorted == Sorted(mid_salary, ByProjection(players))
  IN  (IF high_salary # <<>> THEN <<MaxByProjection(players, high_salary)>>
                             ELSE <<>>)
      \o Take(mid_sorted, MID_PICKS)

BalancedFirstPicks(players) ==
  LET IsHigh(p) == players[p].salary >= HIGH_SALARY
      IsMid(p)  == MID_SALARY <= players[p].salary
                   /\ players[p].salary < HIGH_SALARY
      high_salary == SelectSeq(Indices(players), IsHigh)
      mid_salary  == SelectSeq(Indices(players), IsMid)
      mid_sorted == Sorted(mid_salary, ByPerDollar(players))
  IN  (IF high_salary # <<>> THEN <<MaxByProjection(players, high_salary)>>
                             ELSE <<>>)
      \o Take(mid_sorted, MID_PICKS)

BalancedSelected(players) ==
  LET IsValue(p) == players[p].salary < MID_SALARY
      value_plays == SelectSeq(Indices(players), IsValue)
      first == BalancedFirstPicks(players)
      remaining_salary == salary_cap - SumOver(players, first, "salary")
      value_sorted == Sorted(value_plays, ByProjection(players))
  IN  BalancedLoop(players, value_sorted, first, remaining_salary)

build_balanced_lineup(players) ==
  create_lineup_object(players, BalancedSelected(players))

(***************************************************************************)
(* build_contrarian_lineup                                                 *)
(***************************************************************************)
\* variant: a projection of exactly 20 is not enough
RECURSIVE ContrarianLoop_StrictFloor(_, _, _, _)
ContrarianLoop_StrictFloor(players, order, selected, total_salary) ==
  IF order = <<>> THEN selected
  ELSE LET player == Head(order)
       IN  IF /\ Len(selected) < ROSTER_SIZE
              /\ total_salary + players[player].salary <= salary_cap
              /\ players[player].projection > MIN_PROJECTION
           THEN ContrarianLoop_StrictFloor(players, Tail(order),
                                           Append(selected, player),
                                           total_salary + players[player].salary)
           ELSE ContrarianLoop_StrictFloor(players, Tail(order), selected,
                                           total_salary)

RECURSIVE ContrarianLoop(_, _, _, _)
ContrarianLoop(players, order, selected, total_salary) ==
  IF order = <<>> THEN selected
  ELSE LET player == Head(order)
       IN  IF /\ Len(selected) < ROSTER_SIZE
              /\ total_salary + players[player].salary <= salary_cap
              /\ players[player].projection >= MIN_PROJECTION
           THEN ContrarianLoop(players, Tail(order), Append(selected, player),
                               total_salary + players[player].salary)
           ELSE ContrarianLoop(players, Tail(order), selected, total_salary)

ContrarianSelected(players) ==
  LET contrarian_players == Sorted(Indices(players), ByOwnership(players))
  IN  ContrarianLoop(players, contrarian_players, <<>>, 0)

build_contrarian_lineup(players) ==
  create_lineup_object(players, ContrarianSelected(players))

(***************************************************************************)
(* build_game_stack_lineup                                                 *)
(***************************************************************************)
StackFirstPicks(players) ==
  LET InLvaConn(p) == players[p].team \in {"LVA", "CONN"}
      InNylMin(p)  == players[p].team \in {"NYL", "MIN"}
      lva_conn_sorted == Sorted(SelectSeq(Indices(players), InLvaConn),
                                ByProjection(players))
      nyl_min_sorted  == Sorted(SelectSeq(Indices(players), InNylMin),
                                ByProjection(players))
  IN  Take(lva_conn_sorted, STACK_FIRST) \o Take(nyl_min_sorted, STACK_SECOND)

\* variant: the last entry of order that fits is taken
StackFill_LastFit(players, order, selected, remaining_salary) ==
  LET fits == { k \in DOMAIN order :
                  players[order[k]].salary <= remaining_salary }
  IN  IF fits = {} THEN selected
      ELSE Append(selected, order[CHOOSE k \in fits : \A j \in fits : k >= j])

\* the for ... break loop: the first entry of order that fits, if any
StackFill(players, order, selected, remaining_salary) ==
  LET fits == { k \in DOMAIN order :
                  players[order[k]].salary <= remaining_salary }
  IN  IF fits = {} THEN selected
      ELSE Append(selected, order[CHOOSE k \in fits : \A j \in fits : k <= j])

\* variant: the last slot is filled from the whole pool
GameStackSelected_NoExclude(players) ==
  LET first == StackFirstPicks(players)
      remaining_salary == salary_cap - SumOver(players, first, "salary")
  IN  StackFill(players, Sorted(Indices(players), ByProjection(players)),
                first, remaining_salary)

GameStackSelected(players) ==
  LET first == StackFirstPicks(players)
      remaining_salary == salary_cap - SumOver(players, first, "salary")
      \* "p not in selected" compares the dicts by value
      NotSelected(p) == \A s \in Range(first) : players[p] # players[s]
      remaining_players == SelectSeq(Indices(players), NotSelected)
  IN  StackFill(players, Sorted(remaining_players, ByProjection(players)),
                first, remaining_salary)

build_game_stack_lineup(players) ==
  create_lineup_object(players, GameStackSelected(players))

(***************************************************************************)
(* build_value_lineup: writes 'value' into every dict of the pool, then    *)
(* selects.  ValueAugment is the pool after the first loop.                *)
(***************************************************************************)
\* projection / (salary / 1000); projection is in tenths
ValueScore(player) == <<player.projection * 100, player.salary>>

\* variant: the score is also written over 'projection' (in tenths)
ValueAugment_Overwrite(players) ==
  [k \in DOMAIN players |->
     [players[k] EXCEPT
        !.value = ValueScore(players[k]),
        !.projection = (players[k].projection * 1000) \div players[k].salary]]

ValueAugment(players) ==
  [k \in DOMAIN players |->
     [players[k] EXCEPT !.value = ValueScore(players[k])]]

RECURSIVE ValueLoop(_, _, _, _)
ValueLoop(players, order, selected, total_salary) ==
  IF order = <<>> THEN selected
  ELSE LET player == Head(order)
       IN  IF /\ Len(selected) < ROSTER_SIZE
              /\ total_salary + players[player].salary <= salary_cap
           THEN ValueLoop(players, Tail(order), Append(selected, player),
                          total_salary + players[player].salary)
           ELSE ValueLoop(players, Tail(order), selected, total_salary)

\* players: the pool after ValueAugment
ValueSelected(players) ==
  LET value_sorted == Sorted(Indices(players), ByValue(players))
  IN  ValueLoop(players, value_sorted, <<>>, 0)

build_value_lineup(players) ==
  create_lineup_object(ValueAugment(players),
                       ValueSelected(ValueAugment(players)))

(***************************************************************************)
(* build_lineup_by_strategy: the lineup (or None) it returns, and the pool *)
(* it leaves behind.                                                       *)
(***************************************************************************)
build_lineup_by_strategy(players, strategy) ==
  CASE strategy = "Ceiling"    -> build_ceiling_lineup(players)
    [] strategy = "Balanced"   -> build_balanced_lineup(players)
    [] strategy = "Contrarian" -> build_contrarian_lineup(players)
    [] strategy = "Game Stack" -> build_game_stack_lineup(players)
    [] strategy = "Value"      -> build_value_lineup(players)
    [] OTHER                   -> build_balanced_lineup(players)

PoolAfterBuild(players, strategy) ==
  IF strategy = "Value" THEN ValueAugment(players) ELSE players

(***************************************************************************)
(* validate_lineup                                                         *)
(***************************************************************************)
CountPosition(players, lineup, pos) ==
  Cardinality({ k \in DOMAIN lineup.players :
                  players[lineup.players[k]].position = pos })

\* variant: the position requirements are not checked
validate_lineup_NoRoles(players, lineup) ==
  IF lineup = None THEN FALSE
  ELSE IF lineup.salary > salary_cap THEN FALSE
  ELSE IF Len(lineup.players) # ROSTER_SIZE THEN FALSE
  ELSE TRUE

\* variant: "and" for "or" in the position requirements
validate_lineup_BothShort(players, lineup) ==
  IF lineup = None THEN FALSE
  ELSE IF lineup.salary > salary_cap THEN FALSE
  ELSE IF Len(lineup.players) # ROSTER_SIZE THEN FALSE
  ELSE IF /\ CountPosition(players, lineup, "G") < MIN_GUARDS
          /\ CountPosition(players, lineup, "F") < MIN_FORWARDS THEN FALSE
  ELSE TRUE

\* variant: a lineup that spends the cap exactly is rejected
validate_lineup_CapExclusive(players, lineup) ==
  IF lineup = None THEN FALSE
  ELSE IF lineup.salary >= salary_cap THEN FALSE
  ELSE IF Len(lineup.players) # ROSTER_SIZE THEN FALSE
  ELSE IF \/ CountPosition(players, lineup, "G") < MIN_GUARDS
          \/ CountPosition(players, lineup, "F") < MIN_FORWARDS THEN FALSE
  ELSE TRUE

validate_lineup(players, lineup) ==
  IF lineup = None THEN FALSE
  ELSE IF lineup.salary > salary_cap THEN FALSE
  ELSE IF Len(lineup.players) # ROSTER_SIZE THEN FALSE
  ELSE IF \/ CountPosition(players, lineup, "G") < MIN_GUARDS
          \/ CountPosition(players, lineup, "F") < MIN_FORWARDS THEN FALSE
  ELSE TRUE

(***************************************************************************)
(* export_to_csv.  The text is kept as its lines, and a line as the cells  *)
(* that "," joins; no name of a pool holds a comma or a line break.        *)
(***************************************************************************)
CsvHeader == <<"G", "G", "F", "F", "F", "UTIL">>

\* variant: the utility cell is always the last entry of the lineup
ExportRow_UtilLast(players, lineup) ==
  LET ps == lineup.players
      IsGuard(p)   == players[p].position = "G"
      IsForward(p) == players[p].position = "F"
      guards   == SelectSeq(ps, IsGuard)
      forwards == SelectSeq(ps, IsForward)
      NameOf(seq) == [k \in DOMAIN seq |-> players[seq[k]].name]
  IN  NameOf(Take(guards, 2)) \o NameOf(Take(forwards, 3))
        \o <<players[ps[Len(ps)]].name>>

\* the row of one lineup
ExportRow(players, lineup) ==
  LET ps == lineup.players
      IsGuard(p)   == players[p].position = "G"
      IsForward(p) == players[p].position = "F"
      guards   == SelectSeq(ps, IsGuard)
      forwards == SelectSeq(ps, IsForward)
      \* "p not in guards[:2] and p not in forwards[:3]": dicts by value
      NotPlaced(p) ==
        /\ \A q \in Range(Take(guards, 2)) : players[p] # players[q]
        /\ \A q \in Range(Take(forwards, 3)) : players[p] # players[q]
      remaining == SelectSeq(ps, NotPlaced)
      NameOf(seq) == [k \in DOMAIN seq |-> players[seq[k]].name]
  IN  NameOf(Take(guards, 2)) \o NameOf(Take(forwards, 3))
        \o <<players[IF remaining # <<>> THEN remaining[1]
                                         ELSE ps[Len(ps)]].name>>

\* players[-1] of a lineup without entries
IndexError == "IndexError"

export_to_csv(players, batch) ==
  IF \E k \in DOMAIN batch : batch[k].players = <<>>
  THEN IndexError
  ELSE <<CsvHeader>> \o [k \in DOMAIN batch |-> ExportRow(players, batch[k])]

(***************************************************************************)
(* The engine as a state machine.                                          *)
(*   player_pool  self.player_pool["guards"]                               *)
(*   loaded       the pool as it was handed to the engine (history)        *)
(*   pc           "idle", or "loop" while generate_lineups is iterating    *)
(*   count, i, lineups   the argument and locals of generate_lineups       *)
(*   call         the operation called last and its argument               *)
(*   ret          what that call returned (None while it is running)       *)
(***************************************************************************)
Init ==
  /\ player_pool \in Pools
  /\ loaded = player_pool
  /\ pc = "idle"
  /\ count = 0
  /\ i = 0
  /\ lineups = <<>>
  /\ call = [op |-> "none", arg |-> None]
  /\ ret = None

\* a strategy name the dispatch does not know falls through to Balanced
StrategyInputs == Range(strategies) \cup {"Cash"}

\* build_lineup_by_strategy(strategy), called directly
CallBuild(strategy) ==
  /\ pc = "idle"
  /\ player_pool' = PoolAfterBuild(player_pool, strategy)
  /\ ret' = build_lineup_by_strategy(player_pool, strategy)
  /\ call' = [op |-> "build_lineup_by_strategy", arg |-> strategy]
  /\ UNCHANGED <<loaded, pc, count, i, lineups>>

\* generate_lineups(c): entry, up to the first test of the for loop
CallGenerateLineups(c) ==
  /\ pc = "idle"
  /\ pc' = "loop"
  /\ count' = c
  /\ i' = 0
  /\ lineups' = <<>>
  /\ call' = [op |-> "generate_lineups", arg |-> c]
  /\ ret' = None
  /\ UNCHANGED <<player_pool, loaded>>

\* lineup['strategy'] = strategy; lineup['number'] = number
Tagged(lineup, strategy, number) ==
  lineup @@ ("strategy" :> strategy) @@ ("number" :> number)

\* variant: number is the position in the output
LoopBody_PositionNumber(players, k, out) ==
  LET strategy == strategies[(k % Len(strategies)) + 1]
      lineup   == build_lineup_by_strategy(players, strategy)
      after    == PoolAfterBuild(players, strategy)
  IN  IF lineup # None /\ validate_lineup(after, lineup)
      THEN Append(out, Tagged(lineup, strategy, Len(out) + 1))
      ELSE out

\* variant: the tag is the name of the next strategy of the rotation
LoopBody_ShiftedTag(players, k, out) ==
  LET strategy == strategies[(k % Len(strategies)) + 1]
      lineup   == build_lineup_by_strategy(players, strategy)
      after    == PoolAfterBuild(players, strategy)
  IN  IF lineup # None /\ validate_lineup(after, lineup)
      THEN Append(out, Tagged(lineup,
                              strategies[((k + 1) % Len(strategies)) + 1],
                              k + 1))
      ELSE out

\* variant: number is the loop index itself, counted from 0
LoopBody_ZeroBased(players, k, out) ==
  LET strategy == strategies[(k % Len(strategies)) + 1]
      lineup   == build_lineup_by_strategy(players, strategy)
      after    == PoolAfterBuild(players, strategy)
  IN  IF lineup # None /\ validate_lineup(after, lineup)
      THEN Append(out, Tagged(lineup, strategy, k))
      ELSE out

\* the body of the for loop, for the current i
LoopBody(players, k, out) ==
  LET strategy == strategies[(k % Len(strategies)) + 1]
      lineup   == build_lineup_by_strategy(players, strategy)
      after    == PoolAfterBuild(players, strategy)
  IN  IF lineup # None /\ validate_lineup(after, lineup)
      THEN Append(out, Tagged(lineup, strategy, k + 1))
      ELSE out

GenerateLineupsIter ==
  /\ pc = "loop"
  /\ i < count
  /\ lineups' = LoopBody(player_pool, i, lineups)
  /\ player_pool' = PoolAfterBuild(player_pool,
                                   strategies[(i % Len(strategies)) + 1])
  /\ i' = i + 1
  /\ UNCHANGED <<loaded, pc, count, call, ret>>

\* the loop is exhausted: return lineups
GenerateLineupsReturn ==
  /\ pc = "loop"
  /\ i = count
  /\ ret' = lineups
  /\ pc' = "idle"
  /\ count' = 0
  /\ i' = 0
  /\ lineups' = <<>>
  /\ UNCHANGED <<player_pool, loaded, call>>

\* a lineup dict put together by a caller from a selection of any length
HandMade(players, selected) ==
  [players          |-> selected,
   salary           |-> SumOver(players, selected, "salary"),
   projection       |-> SumOver(players, selected, "projection"),
   ownership        |-> <<SumOver(players, selected, "ownership"), Len(selected)>>,
   salary_remaining |-> salary_cap - SumOver(players, selected, "salary")]

\* arguments of validate_lineup: None, what the builders return, and
\* dicts made from the first and from the last 5 to 7 entries of the pool
ValidateInputs(players) ==
  {None}
  \cup { build_lineup_by_strategy(players, s) : s \in Range(strategies) }
  \cup { HandMade(players, Take(Indices(players), n)) :
           n \in (ROSTER_SIZE - 1)..(ROSTER_SIZE + 1) }
  \cup { HandMade(players, SubSeq(Indices(players), n, Len(players))) :
           n \in { m \in 1..Len(players) :
                     Len(players) - m + 1
                       \in (ROSTER_SIZE - 1)..(ROSTER_SIZE + 1) } }

CallValidate(lineup) ==
  /\ pc = "idle"
  /\ ret' = validate_lineup(player_pool, lineup)
  /\ call' = [op |-> "validate_lineup", arg |-> lineup]
  /\ UNCHANGED <<player_pool, loaded, pc, count, i, lineups>>

Next ==
  \/ \E strategy \in StrategyInputs : CallBuild(strategy)
  \/ \E c \in 0..MaxCount : CallGenerateLineups(c)
  \/ GenerateLineupsIter
  \/ GenerateLineupsReturn

Spec == Init /\ [][Next]_vars

\* validate_lineup is a function of its argument: it is exercised on its own
NextValidate == \E lineup \in ValidateInputs(player_pool) : CallValidate(lineup)

SpecValidate == Init /\ [][NextValidate]_vars

\* what generate_lineups(5) returns for a pool
BatchOfFive(players) ==
  LoopBody(players, 4,
    LoopBody(players, 3,
      LoopBody(players, 2,
        LoopBody(players, 1,
          LoopBody(players, 0, <<>>)))))

\* arguments of export_to_csv: the batch of five and its first lineups, and
\* every lineup dict of ValidateInputs on its own
ExportInputs(players) ==
  { Take(BatchOfFive(players), n) : n \in 0..5 }
  \cup { <<lineup>> : lineup \in ValidateInputs(players) \ {None} }

CallExport(batch) ==
  /\ pc = "idle"
  /\ ret' = export_to_csv(player_pool, batch)
  /\ call' = [op |-> "export_to_csv", arg |-> batch]
  /\ UNCHANGED <<player_pool, loaded, pc, count, i, lineups>>

\* export_to_csv is a function of its argument: it is exercised on its own
NextExport == \E batch \in ExportInputs(player_pool) : CallExport(batch)

SpecExport == Init /\ [][NextExport]_vars

(***************************************************************************)
(* optimize_for_contest_type                                               *)
(***************************************************************************)
\* the contest types with a branch of their own
DirectContests == {"GPP", "Cash", "Single Entry"}

\* contest types handed in: the three named ones and one that is not
ContestInputs == DirectContests \cup {"Showdown"}

\* variant: the lineup is kept only when validate_lineup accepts it
DirectResult_Validated(players, contest_type) ==
  LET lineup == CASE contest_type = "GPP"  -> build_ceiling_lineup(players)
                  [] contest_type = "Cash" -> build_balanced_lineup(players)
                  [] contest_type = "Single Entry" ->
                       build_game_stack_lineup(players)
  IN  IF validate_lineup(players, lineup) THEN <<lineup>> ELSE <<>>

\* the one-element list of the three named branches
DirectResult(players, contest_type) ==
  CASE contest_type = "GPP"  -> <<build_ceiling_lineup(players)>>
    [] contest_type = "Cash" -> <<build_balanced_lineup(players)>>
    [] contest_type = "Single Entry" -> <<build_game_stack_lineup(players)>>

\* optimize_for_contest_type(contest_type, lineup_count): a named contest
\* type returns at once; any other runs the loop of generate_lineups
CallOptimize(contest_type, lineup_count) ==
  /\ pc = "idle"
  /\ call' = [op  |-> "optimize_for_contest_type",
              arg |-> <<contest_type, lineup_count>>]
  /\ IF contest_type \in DirectContests
     THEN /\ ret' = DirectResult(player_pool, contest_type)
          /\ UNCHANGED <<pc, count, i, lineups>>
     ELSE /\ pc' = "loop"
          /\ count' = lineup_count
          /\ i' = 0
          /\ lineups' = <<>>
          /\ ret' = None
  /\ UNCHANGED <<player_pool, loaded>>

NextContest ==
  \/ \E contest_type \in ContestInputs, lineup_count \in 0..MaxCount :
        CallOptimize(contest_type, lineup_count)
  \/ GenerateLineupsIter
  \/ GenerateLineupsReturn

SpecContest == Init /\ [][NextContest]_vars

(***************************************************************************)
(* Properties                                                              *)
(***************************************************************************)
\* the names of the entries a selection refers to
Names(players, selected) == { players[selected[k]].name : k \in DOMAIN selected }

AllDistinct(players, selected) ==
  \A a, b \in DOMAIN selected :
     a # b => players[selected[a]].name # players[selected[b]].name

\* the output of generate_lineups: as built so far, or as returned
InBatch == pc = "loop" \/ (pc = "idle" /\ call.op = "generate_lineups")
BatchOutput == IF pc = "loop" THEN lineups ELSE ret
\* the number of iterations of the loop that have been made
BatchDone == IF pc = "loop" THEN i ELSE call.arg
Returned == pc = "idle" /\ call.op = "generate_lineups"
Built == pc = "idle" /\ call.op = "build_lineup_by_strategy"

StrategyAt(k) == strategies[(k % 5) + 1]

\* iteration k of a batch over the pool as loaded yields a lineup
Succeeds(k) ==
  LET lineup == build_lineup_by_strategy(loaded, StrategyAt(k))
  IN  lineup # None /\ validate_lineup(loaded, lineup)

BySalary(players) ==
  [a \in DOMAIN players, b \in DOMAIN players |->
     players[a].salary < players[b].salary]

\* the six cheapest entries of the pool, if it has six
CheapestSix(players) ==
  Take(Sorted(Indices(players), BySalary(players)), 6)

\* no six entries of the pool cost 50000 or less together
NoSixFit(players) ==
  \/ Len(players) < 6
  \/ SumOver(players, CheapestSix(players), "salary") > 50000

\* C1: every lineup in the output of generate_lineups has exactly 6
\* entries with pairwise distinct identifiers and a total cost (the sum of
\* its entries' costs, which is its 'salary') of at most 50000.
C1_BatchLineupShape ==
  InBatch =>
    \A k \in DOMAIN BatchOutput :
       LET l == BatchOutput[k]
       IN  /\ Len(l.players) = 6
           /\ AllDistinct(player_pool, l.players)
           /\ l.salary = SumOver(player_pool, l.players, "salary")
           /\ l.salary <= 50000

C1_Witness == Returned /\ Len(ret) >= 4

\* C2: every lineup in the output of generate_lineups has at least 2
\* Guard entries and at least 3 Forward entries.
C2_BatchLineupRoles ==
  InBatch =>
    \A k \in DOMAIN BatchOutput :
       /\ CountPosition(player_pool, BatchOutput[k], "G") >= 2
       /\ CountPosition(player_pool, BatchOutput[k], "F") >= 3

\* a batch that returned lineups and left out a built Contrarian lineup
C2_Witness ==
  /\ Returned
  /\ call.arg >= 3
  /\ Len(ret) >= 1
  /\ build_contrarian_lineup(loaded) # None
  /\ \A k \in DOMAIN ret : ret[k].strategy # "Contrarian"

\* C3: a build returns None or a lineup of exactly 6 distinct entries whose
\* costs sum to at most 50000; fewer than 6 entries are never returned.
C3_BuildAllOrNothing ==
  Built =>
    \/ ret = None
    \/ /\ Len(ret.players) = 6
       /\ AllDistinct(player_pool, ret.players)
       /\ SumOver(player_pool, ret.players, "salary") <= 50000
       /\ ret.salary = SumOver(player_pool, ret.players, "salary")

\* a Game Stack build whose five stacked entries alone exceed the cap
C3_Witness ==
  /\ Built
  /\ call.arg = "Game Stack"
  /\ Len(StackFirstPicks(player_pool)) = 5
  /\ SumOver(player_pool, StackFirstPicks(player_pool), "salary") > 50000
  /\ ret = None

\* generate_lineups(4) has returned on the reference pool
ReferenceRun ==
  /\ Returned
  /\ call.arg = 4
  /\ Len(loaded) = 12
  /\ loaded = load_player_pool

\* C4 as stated: on the reference pool generate_lineups(4) returns the 4
\* lineups Ceiling, Balanced, Contrarian, Game Stack, each within the cap,
\* and Ceiling has the largest total projection.
C4_FourLineupsAsStated ==
  ReferenceRun =>
    /\ Len(ret) = 4
    /\ \A k \in 1..4 : ret[k].strategy = strategies[k]
    /\ \A k \in 1..4 : ret[k].salary <= 50000
    /\ \A k \in 1..4 : ret[1].projection >= ret[k].projection

\* C4 amended: on the reference pool generate_lineups(4) returns exactly
\* the Balanced lineup (number 2) and the Game Stack lineup (number 4),
\* each within the cap; the Ceiling build fails and the Contrarian lineup
\* is not valid, so the batch holds no Ceiling lineup to compare with.
C4_TwoLineups ==
  ReferenceRun =>
    /\ Len(ret) = 2
    /\ ret[1].strategy = "Balanced"   /\ ret[1].number = 2
    /\ ret[2].strategy = "Game Stack" /\ ret[2].number = 4
    /\ \A k \in 1..2 : ret[k].salary <= 50000
    /\ build_ceiling_lineup(loaded) = None
    /\ build_contrarian_lineup(loaded) # None
    /\ ~validate_lineup(loaded, build_contrarian_lineup(loaded))

C4_Witness == ReferenceRun /\ Len(ret) = 2

\* C5: when no six entries of the pool fit under the cap, every build
\* returns None and generate_lineups returns the empty list, whatever the
\* count.
C5_NothingFits ==
  NoSixFit(loaded) =>
    /\ Built => ret = None
    /\ InBatch => BatchOutput = <<>>

\* a batch of at least five iterations over a pool of six or more entries
C5_Witness ==
  /\ NoSixFit(loaded)
  /\ Len(loaded) >= 6
  /\ Returned
  /\ call.arg >= 5
  /\ ret = <<>>

\* C6 as stated: no build changes the pool; every entry keeps exactly the
\* fields and values it was loaded with.
C6_PoolNeverChanged == player_pool = loaded

\* C7: a build of a strategy returns the same set of entries and the same
\* total cost (or None again) as that strategy returns on the pool as
\* loaded, whatever was built on the pool before, directly or in a batch.
SameResult(a, b) ==
  IF a = None \/ b = None THEN a = None /\ b = None
  ELSE /\ Names(player_pool, a.players) = Names(loaded, b.players)
       /\ a.salary = b.salary

C7_BuildIsRepeatable ==
  /\ Built => SameResult(ret, build_lineup_by_strategy(loaded, call.arg))
  /\ InBatch =>
       \A k \in DOMAIN BatchOutput :
          SameResult(BatchOutput[k],
                     build_lineup_by_strategy(loaded, BatchOutput[k].strategy))

\* a Ceiling lineup built after a Value build has written to the pool
C7_Witness ==
  /\ Built
  /\ call.arg = "Ceiling"
  /\ player_pool # loaded
  /\ ret # None

\* C8: the output of generate_lineups is in iteration order; the lineup of
\* iteration k (from 0) is tagged strategies[k mod 5] and numbered k + 1;
\* exactly the iterations whose build yields a valid lineup contribute,
\* every one of the count iterations is made once, and the loop only ever
\* appends to the output.
C8_OutputState ==
  InBatch =>
    LET out == BatchOutput
    IN  /\ \A a \in DOMAIN out :
             /\ out[a].number \in 1..BatchDone
             /\ out[a].strategy = StrategyAt(out[a].number - 1)
        /\ \A a, b \in DOMAIN out : a < b => out[a].number < out[b].number
        /\ { out[a].number : a \in DOMAIN out }
             = { k + 1 : k \in { j \in 0..(BatchDone - 1) : Succeeds(j) } }
        /\ Len(out) <= BatchDone
        /\ pc = "loop" => BatchDone <= count

C8_LoopStep ==
  (pc = "loop" /\ pc' = "loop") =>
     /\ i' = i + 1
     /\ count' = count
     /\ Len(lineups') \in {Len(lineups), Len(lineups) + 1}
     /\ SubSeq(lineups', 1, Len(lineups)) = lineups

C8_BatchOrder == []C8_OutputState /\ [][C8_LoopStep]_vars

\* a batch of 6 that skipped its first iteration and kept a later one
C8_Witness ==
  /\ Returned
  /\ call.arg = 6
  /\ Len(ret) \in 1..5
  /\ ret[1].number > 1

\* the pool as loaded lets each of the five strategies build a valid lineup
AllFiveValidate == \A k \in 0..4 : Succeeds(k)

\* C9: with count = 5 on a pool on which each of the five strategies
\* builds a valid lineup, generate_lineups returns exactly 5 lineups tagged
\* Ceiling, Balanced, Contrarian, Game Stack, Value in that order.
C9_FiveInRotation ==
  (Returned /\ call.arg = 5 /\ AllFiveValidate) =>
     /\ Len(ret) = 5
     /\ [k \in 1..5 |-> ret[k].strategy]
          = <<"Ceiling", "Balanced", "Contrarian", "Game Stack", "Value">>

C9_Witness == Returned /\ call.arg = 5 /\ AllFiveValidate /\ Len(ret) = 5

\* C10: validate_lineup returns TRUE exactly when the lineup is not None,
\* has exactly 6 entries, a 'salary' of at most 50000, at least 2 Guards
\* and at least 3 Forwards; the entries it looked at are as they were.
C10_ValidateExactly ==
  call.op = "validate_lineup" =>
    /\ ret = /\ call.arg # None
             /\ Len(call.arg.players) = 6
             /\ call.arg.salary <= 50000
             /\ Cardinality({ k \in DOMAIN call.arg.players :
                  player_pool[call.arg.players[k]].position = "G" }) >= 2
             /\ Cardinality({ k \in DOMAIN call.arg.players :
                  player_pool[call.arg.players[k]].position = "F" }) >= 3
    /\ player_pool = loaded

\* a lineup that spends the cap exactly is accepted
C10_Witness ==
  /\ call.op = "validate_lineup"
  /\ ret = TRUE
  /\ call.arg.salary = 50000

(***************************************************************************)
(* The greedy passes, described by what they must produce                  *)
(***************************************************************************)
HigherProjection(players) ==
  [a \in DOMAIN players, b \in DOMAIN players |->
     players[a].projection > players[b].projection]

LowerOwnership(players) ==
  [a \in DOMAIN players, b \in DOMAIN players |->
     players[a].ownership < players[b].ownership]

\* projection / (salary / 1000), compared as quotients
HigherValueScore(players) ==
  [a \in DOMAIN players, b \in DOMAIN players |->
     players[a].projection * players[b].salary
       > players[b].projection * players[a].salary]

\* order lists every entry of the pool once, ahead[a, b] entries first and
\* entries that tie in their pool order
IsWalkOrder(players, order, ahead) ==
  /\ Len(order) = Len(players)
  /\ Range(order) = DOMAIN players
  /\ \A r, q \in DOMAIN order :
        r < q => \/ ahead[order[r], order[q]]
                 \/ (~ahead[order[q], order[r]] /\ order[r] < order[q])

\* the entries of selected that are reached before position r of order
PickedBefore(order, selected, r) ==
  LET IsPicked(p) == p \in Range(selected)
  IN  SelectSeq(SubSeq(order, 1, r - 1), IsPicked)

\* the entry at position r of order fits what the earlier picks left
FitsAt(players, order, selected, r) ==
  SumOver(players, PickedBefore(order, selected, r), "salary")
    + players[order[r]].salary <= 50000

\* selected is what one pass over order picks: an entry is picked exactly
\* when fewer than 6 are picked so far, it fits the remaining budget and
\* its projection is at least floor; picks are kept in the order reached
IsGreedyPass(players, order, selected, floor) ==
  /\ LET IsPicked(p) == p \in Range(selected)
     IN  selected = SelectSeq(order, IsPicked)
  /\ \A r \in DOMAIN order :
        (order[r] \in Range(selected))
          <=> /\ Len(PickedBefore(order, selected, r)) < 6
              /\ FitsAt(players, order, selected, r)
              /\ players[order[r]].projection >= floor

\* position of the entry p in order
PlaceOf(order, p) == CHOOSE r \in DOMAIN order : order[r] = p

\* every entry left out although it is ahead of a picked one did not fit
\* the remaining budget when it was reached
LeftOutDidNotFit(players, order, selected, ahead) ==
  \A u \in DOMAIN players \ Range(selected) :
     (\E p \in Range(selected) : ahead[u, p])
        => ~FitsAt(players, order, selected, PlaceOf(order, u))

\* what the build hands back for a selection
ReturnsSelection(result, selected) ==
  IF Len(selected) = 6 THEN result # None /\ result.players = selected
                       ELSE result = None

\* C11: the Ceiling build walks the pool in descending projection order
\* and picks an entry exactly when fewer than 6 are picked and its cost
\* fits the remaining budget; so no picked entry has a lower projection
\* than an entry left out that fitted when it was reached.
C11_CeilingGreedy ==
  (Built /\ call.arg = "Ceiling") =>
     LET order    == Sorted(Indices(player_pool), HigherProjection(player_pool))
         selected == CeilingSelected(player_pool)
     IN  /\ IsWalkOrder(player_pool, order, HigherProjection(player_pool))
         /\ IsGreedyPass(player_pool, order, selected, 0)
         /\ LeftOutDidNotFit(player_pool, order, selected,
                             HigherProjection(player_pool))
         /\ ReturnsSelection(ret, selected)

\* a Ceiling lineup that passed over an entry of higher projection
C11_Witness ==
  /\ Built
  /\ call.arg = "Ceiling"
  /\ ret # None
  /\ \E u \in DOMAIN player_pool \ Range(ret.players) :
        \E p \in Range(ret.players) :
           player_pool[u].projection > player_pool[p].projection

\* C12: the Value build writes projection / (salary / 1000) as the score;
\* the entries of its lineup are in descending score order, and an entry
\* left out although its score is higher than a picked one's did not fit
\* the remaining budget when it was reached.
C12_ValueGreedy ==
  (Built /\ call.arg = "Value") =>
     LET order    == Sorted(Indices(player_pool), HigherValueScore(player_pool))
         selected == ValueSelected(player_pool)
     IN  /\ \A k \in DOMAIN player_pool :
              player_pool[k].value = <<player_pool[k].projection * 100,
                                       player_pool[k].salary>>
         /\ IsWalkOrder(player_pool, order, HigherValueScore(player_pool))
         /\ IsGreedyPass(player_pool, order, selected, 0)
         /\ LeftOutDidNotFit(player_pool, order, selected,
                             HigherValueScore(player_pool))
         /\ ReturnsSelection(ret, selected)
         /\ ret # None =>
              \A a, b \in DOMAIN ret.players :
                 HigherValueScore(player_pool)[ret.players[b], ret.players[a]]
                    => b < a

\* a Value lineup that passed over an entry of higher score
C12_Witness ==
  /\ Built
  /\ call.arg = "Value"
  /\ ret # None
  /\ \E u \in DOMAIN player_pool \ Range(ret.players) :
        \E p \in Range(ret.players) :
           HigherValueScore(player_pool)[u, p]

\* C13: no entry of a Contrarian lineup has a projection below 20, an
\* entry of exactly 20 is eligible, and entries are taken in ascending
\* ownership order, equal ownerships in pool order.
C13_ContrarianGreedy ==
  (Built /\ call.arg = "Contrarian") =>
     LET order    == Sorted(Indices(player_pool), LowerOwnership(player_pool))
         selected == ContrarianSelected(player_pool)
     IN  /\ IsWalkOrder(player_pool, order, LowerOwnership(player_pool))
         /\ IsGreedyPass(player_pool, order, selected, 200)
         /\ ReturnsSelection(ret, selected)
         /\ ret # None =>
              /\ \A p \in Range(ret.players) :
                    player_pool[p].projection >= 200
              /\ \A a, b \in DOMAIN ret.players :
                    a < b =>
                      \/ player_pool[ret.players[a]].ownership
                           < player_pool[ret.players[b]].ownership
                      \/ /\ player_pool[ret.players[a]].ownership
                              = player_pool[ret.players[b]].ownership
                         /\ ret.players[a] < ret.players[b]

\* a Contrarian lineup with an entry of projection exactly 20 and two
\* entries of equal ownership, which left out an entry below 20
C13_Witness ==
  /\ Built
  /\ call.arg = "Contrarian"
  /\ ret # None
  /\ \E p \in Range(ret.players) : player_pool[p].projection = 200
  /\ \E p, q \in Range(ret.players) :
        p # q /\ player_pool[p].ownership = player_pool[q].ownership
  /\ \E u \in DOMAIN player_pool \ Range(ret.players) :
        player_pool[u].projection < 200

\* C14: no two lineups of a returned batch hold the same set of entries.
C14_NoDuplicateLineups ==
  Returned =>
    \A a, b \in DOMAIN ret :
       a # b => Names(player_pool, ret[a].players)
                  # Names(player_pool, ret[b].players)

\* the number of iterations before iteration k that yielded no lineup
SkippedBefore(k) == Cardinality({ j \in 0..(k - 1) : ~Succeeds(j) })

\* C15, as stated: the number of every lineup of a returned batch is its
\* position (from 1) in the batch.
C15_NumberIsPosition ==
  Returned => \A k \in DOMAIN ret : ret[k].number = k

\* C15: the number of a lineup is the index (from 0) of the iteration that
\* built it plus 1: the lineup at position k of the output carries k plus
\* the number of earlier iterations that yielded no lineup, so its number
\* is at least k, and is k only when no earlier iteration was skipped.
C15_NumberIsIteration ==
  InBatch =>
    \A k \in DOMAIN BatchOutput :
       LET n == BatchOutput[k].number
       IN  /\ n \in 1..BatchDone
           /\ Succeeds(n - 1)
           /\ n = k + SkippedBefore(n - 1)
           /\ n >= k
           /\ (n = k) <=> (\A j \in 0..(n - 2) : Succeeds(j))

\* a returned batch whose second lineup is numbered past its position
C15_Witness ==
  /\ Returned
  /\ Len(ret) >= 2
  /\ ret[2].number > 2
  /\ SkippedBefore(ret[2].number - 1) > 0

\* C16: a build on an empty pool ends in an outcome of its own, not in the
\* None of a failed build, and a batch does not pass over it as a skipped
\* iteration.
C16_EmptyPoolIsAnError ==
  /\ (Built /\ Len(player_pool) = 0) => ret # None
  /\ (InBatch /\ Len(player_pool) = 0) => BatchDone = 0

\* a lineup as its holder reads it: the dicts of its entries and its totals
LineupView(players, lineup) ==
  [entries    |-> [k \in DOMAIN lineup.players |-> players[lineup.players[k]]],
   salary     |-> lineup.salary,
   projection |-> lineup.projection,
   ownership  |-> lineup.ownership,
   salary_remaining |-> lineup.salary_remaining,
   strategy   |-> lineup.strategy,
   number     |-> lineup.number]

\* C17: a lineup appended to the output reads the same after every later
\* iteration of the loop: none of its entries, totals or tags changes.
C17_AppendedLineupFrozen ==
  [][(pc = "loop" /\ pc' = "loop") =>
       \A k \in DOMAIN lineups :
          LineupView(player_pool', lineups'[k])
            = LineupView(player_pool, lineups[k])]_vars

(***************************************************************************)
(* The fill loop of each strategy: the picks made before it, the order it  *)
(* walks, the selection it ends with and its conditions.                   *)
(***************************************************************************)
FillFirst(players, strategy) ==
  CASE strategy = "Balanced"   -> BalancedFirstPicks(players)
    [] strategy = "Game Stack" -> StackFirstPicks(players)
    [] OTHER                   -> <<>>

FillOrder(players, strategy) ==
  LET IsValue(p) == players[p].salary < MID_SALARY
      NotSelected(p) ==
        \A s \in Range(StackFirstPicks(players)) : players[p] # players[s]
  IN  CASE strategy = "Ceiling" ->
             Sorted(Indices(players), ByProjection(players))
        [] strategy = "Balanced" ->
             Sorted(SelectSeq(Indices(players), IsValue),
                    ByProjection(players))
        [] strategy = "Contrarian" ->
             Sorted(Indices(players), ByOwnership(players))
        [] strategy = "Game Stack" ->
             Sorted(SelectSeq(Indices(players), NotSelected),
                    ByProjection(players))
        [] strategy = "Value" ->
             Sorted(Indices(players), ByValue(ValueAugment(players)))

FillSelected(players, strategy) ==
  CASE strategy = "Ceiling"    -> CeilingSelected(players)
    [] strategy = "Balanced"   -> BalancedSelected(players)
    [] strategy = "Contrarian" -> ContrarianSelected(players)
    [] strategy = "Game Stack" -> GameStackSelected(players)
    [] strategy = "Value"      -> ValueSelected(ValueAugment(players))

\* the lowest projection the fill accepts
FillFloor(strategy) == IF strategy = "Contrarian" THEN MIN_PROJECTION ELSE 0

\* the number of picks at which the fill stops picking
FillLimit(players, strategy) ==
  IF strategy = "Game Stack" THEN Len(StackFirstPicks(players)) + 1
                             ELSE ROSTER_SIZE

\* the picks of the fill itself
FillPicks(first, selected) == SubSeq(selected, Len(first) + 1, Len(selected))

\* first and the picks of the fill reached before position r of order
HeldAt(order, first, selected, r) ==
  first \o PickedBefore(order, FillPicks(first, selected), r)

\* selected is first followed by what one pass over order picks: an entry
\* is picked exactly when fewer than limit entries are held, its cost fits
\* what the held entries left of the cap and its projection is at least
\* floor; the picks are kept in the order reached and nothing held is
\* dropped or replaced
IsFillPass(players, order, first, selected, floor, limit) ==
  /\ Len(selected) >= Len(first)
  /\ SubSeq(selected, 1, Len(first)) = first
  /\ LET IsPicked(p) == p \in Range(FillPicks(first, selected))
     IN  FillPicks(first, selected) = SelectSeq(order, IsPicked)
  /\ \A r \in DOMAIN order :
        (order[r] \in Range(FillPicks(first, selected)))
          <=> /\ Len(HeldAt(order, first, selected, r)) < limit
              /\ SumOver(players, HeldAt(order, first, selected, r), "salary")
                   + players[order[r]].salary <= salary_cap
              /\ players[order[r]].projection >= floor

\* C18, as stated: in the fill of every strategy an entry is passed over
\* when its cost does not fit the remaining budget or when the position
\* requirements are already out of reach, so no entry is picked in either
\* case; the picks stay in the order reached.
C18_SkipsWhenRolesUnreachable ==
  (Built /\ call.arg \in Range(strategies)) =>
     LET first    == FillFirst(player_pool, call.arg)
         order    == FillOrder(player_pool, call.arg)
         selected == FillSelected(player_pool, call.arg)
     IN  /\ \A r \in DOMAIN order :
              (order[r] \in Range(FillPicks(first, selected)))
                => /\ SumOver(player_pool, HeldAt(order, first, selected, r),
                              "salary")
                        + player_pool[order[r]].salary <= salary_cap
                   /\ ~RolesUnreachable(player_pool,
                                        HeldAt(order, first, selected, r))
         /\ LET IsPicked(p) == p \in Range(FillPicks(first, selected))
            IN  FillPicks(first, selected) = SelectSeq(order, IsPicked)

\* C18: in the fill of every strategy an entry reached in the sorted order
\* is passed over exactly when the roster is full (for Game Stack: the one
\* open slot is taken), when its cost does not fit the remaining budget,
\* or (Contrarian) when its projection is below 20; positions play no part,
\* and no earlier pick is ever dropped or replaced.
C18_SkipsForRoomOrBudgetOnly ==
  (Built /\ call.arg \in Range(strategies)) =>
     LET first    == FillFirst(player_pool, call.arg)
         order    == FillOrder(player_pool, call.arg)
         selected == FillSelected(player_pool, call.arg)
     IN  /\ IsFillPass(player_pool, order, first, selected,
                       FillFloor(call.arg), FillLimit(player_pool, call.arg))
         /\ ReturnsSelection(ret, selected)

\* a Ceiling build that picked an entry although the position
\* requirements were already out of reach
C18_Witness ==
  /\ Built
  /\ call.arg = "Ceiling"
  /\ ret # None
  /\ \E k \in 1..ROSTER_SIZE :
        RolesUnreachable(player_pool, SubSeq(ret.players, 1, k - 1))

\* six entries of the pool that cost 50000 or less together and hold at
\* least 2 guards and 3 forwards
IsFeasibleSix(players, six) ==
  /\ Cardinality(six) = ROSTER_SIZE
  /\ LET InSix(p) == p \in six
         chosen   == SelectSeq(Indices(players), InSix)
     IN  /\ SumOver(players, chosen, "salary") <= salary_cap
         /\ Cardinality({ p \in six : players[p].position = "G" })
              >= MIN_GUARDS
         /\ Cardinality({ p \in six : players[p].position = "F" })
              >= MIN_FORWARDS

FeasibleLineupExists(players) ==
  \E six \in SUBSET (DOMAIN players) : IsFeasibleSix(players, six)

\* C19: on the reference pool and on the pool of one star and six cheap
\* entries, six entries within the cap and the position requirements
\* exist, yet the Ceiling pass ends with fewer than 6 entries and the
\* build returns None: a feasible lineup does not imply a successful build.
C19_GreedyInfeasible ==
  (Built /\ call.arg = "Ceiling" /\ loaded \in {load_player_pool, StarPool})
     => /\ FeasibleLineupExists(loaded)
        /\ Len(CeilingSelected(player_pool)) < ROSTER_SIZE
        /\ \A p \in DOMAIN player_pool \ Range(CeilingSelected(player_pool)) :
              SumOver(player_pool, CeilingSelected(player_pool), "salary")
                + player_pool[p].salary > salary_cap
        /\ ret = None

\* the Ceiling build on the reference pool ended with five entries
C19_Witness ==
  /\ Built
  /\ call.arg = "Ceiling"
  /\ loaded = load_player_pool
  /\ Len(CeilingSelected(player_pool)) = 5
  /\ ret = None

\* the three salary bands of the Balanced build
HighBand(players)  == { p \in DOMAIN players : players[p].salary >= 9000 }
MidBand(players)   == { p \in DOMAIN players :
                          6000 <= players[p].salary /\ players[p].salary < 9000 }
ValueBand(players) == { p \in DOMAIN players : players[p].salary < 6000 }

\* a goes before b in a descending ranking that keeps ties in pool order
RankedAhead(ahead, a, b) == ahead[a, b] \/ (~ahead[b, a] /\ a < b)

\* order lists the entries of band once each, ranked by ahead
IsRankingOf(order, band, ahead) ==
  /\ Len(order) = Cardinality(band)
  /\ Range(order) = band
  /\ \A r, q \in DOMAIN order :
        r < q => RankedAhead(ahead, order[r], order[q])

\* C20: the Balanced selection is, in order: the entry of highest
\* projection among those costing 9000 or more (if any); the 3 entries of
\* highest projection per cost among those costing 6000 to 8999 (all of
\* them if fewer), best first; then the entries costing less than 6000 in
\* descending projection order, each taken when fewer than 6 are held and
\* its cost fits the remaining budget.  The bands are disjoint, at most 1
\* high and 3 mid entries are selected, and a lineup that is returned
\* holds at least 2 entries costing less than 6000.
C20_BalancedOrder ==
  (Built /\ call.arg = "Balanced") =>
     LET high     == HighBand(player_pool)
         mid      == MidBand(player_pool)
         value    == ValueBand(player_pool)
         selected == BalancedSelected(player_pool)
         nh       == IF high = {} THEN 0 ELSE 1
         nm       == IF Cardinality(mid) < 3 THEN Cardinality(mid) ELSE 3
         MidPick(k) == selected[nh + k]
         midpicks == { selected[nh + k] : k \in 1..nm }
         perCost  == HigherValueScore(player_pool)
         order    == FillOrder(player_pool, "Balanced")
     IN  /\ high \cap mid = {} /\ high \cap value = {} /\ mid \cap value = {}
         /\ high \cup mid \cup value = DOMAIN player_pool
         /\ Len(selected) >= nh + nm
         /\ high # {} =>
              /\ selected[1] \in high
              /\ \A h \in high \ {selected[1]} :
                   RankedAhead(HigherProjection(player_pool), selected[1], h)
         /\ midpicks \subseteq mid
         /\ Cardinality(midpicks) = nm
         /\ \A j, k \in 1..nm :
              j < k => RankedAhead(perCost, MidPick(j), MidPick(k))
         /\ \A k \in 1..nm : \A u \in mid \ midpicks :
              RankedAhead(perCost, MidPick(k), u)
         /\ IsRankingOf(order, value, HigherProjection(player_pool))
         /\ IsFillPass(player_pool, order, SubSeq(selected, 1, nh + nm),
                       selected, 0, 6)
         /\ Range(selected) \cap high = (IF nh = 1 THEN {selected[1]} ELSE {})
         /\ Range(selected) \cap mid = midpicks
         /\ ReturnsSelection(ret, selected)
         /\ ret # None =>
              Cardinality(Range(ret.players) \cap value) >= 2

\* a Balanced lineup whose mid picks leave out an entry of higher
\* projection than one they hold, and whose fill passed over a cheap entry
C20_Witness ==
  /\ Built
  /\ call.arg = "Balanced"
  /\ ret # None
  /\ \E u \in MidBand(player_pool) \ Range(ret.players) :
        \E m \in MidBand(player_pool) \cap Range(ret.players) :
           player_pool[u].projection > player_pool[m].projection
  /\ HighBand(player_pool) \cap Range(ret.players) # {}
  /\ ValueBand(player_pool) \ Range(ret.players) # {}

\* the two games the Game Stack build draws from
FirstGame(players)  == { p \in DOMAIN players :
                           players[p].team \in {"LVA", "CONN"} }
SecondGame(players) == { p \in DOMAIN players :
                           players[p].team \in {"NYL", "MIN"} }

\* picks are the best n entries of group by ahead, best first
IsTopOf(picks, group, n, ahead) ==
  /\ Len(picks) = n
  /\ Range(picks) \subseteq group
  /\ Cardinality(Range(picks)) = n
  /\ \A j, k \in 1..n : j < k => RankedAhead(ahead, picks[j], picks[k])
  /\ \A k \in 1..n : \A u \in group \ Range(picks) :
        RankedAhead(ahead, picks[k], u)

\* C21: the Game Stack selection is the 3 entries of highest projection
\* of the LVA/CONN game (all of them if fewer), then the 2 of highest
\* projection of the NYL/MIN game (all if fewer), then one more entry: the
\* entry of highest projection among those not yet selected whose cost
\* fits what the first picks left of the cap, if there is one.  The build
\* returns None exactly when a game has too few entries or no remaining
\* entry fits.
C21_GameStackOrder ==
  (Built /\ call.arg = "Game Stack") =>
     LET first    == FirstGame(player_pool)
         second   == SecondGame(player_pool)
         n1       == IF Cardinality(first) < 3 THEN Cardinality(first) ELSE 3
         n2       == IF Cardinality(second) < 2 THEN Cardinality(second) ELSE 2
         selected == GameStackSelected(player_pool)
         byProj   == HigherProjection(player_pool)
         stack    == SubSeq(selected, 1, n1 + n2)
         left     == salary_cap - SumOver(player_pool, stack, "salary")
         fits     == { p \in DOMAIN player_pool \ Range(stack) :
                         player_pool[p].salary <= left }
     IN  /\ Len(selected) >= n1 + n2
         /\ IsTopOf(SubSeq(selected, 1, n1), first, n1, byProj)
         /\ IsTopOf(SubSeq(selected, n1 + 1, n1 + n2), second, n2, byProj)
         /\ IF fits = {}
            THEN Len(selected) = n1 + n2
            ELSE /\ Len(selected) = n1 + n2 + 1
                 /\ selected[n1 + n2 + 1] \in fits
                 /\ \A u \in fits \ {selected[n1 + n2 + 1]} :
                       RankedAhead(byProj, selected[n1 + n2 + 1], u)
         /\ ReturnsSelection(ret, selected)
         /\ (ret = None)
              <=> (Cardinality(first) < 3 \/ Cardinality(second) < 2
                     \/ fits = {})

\* a Game Stack lineup whose last entry is not the best one left: an
\* unselected entry of higher projection did not fit
C21_Witness ==
  /\ Built
  /\ call.arg = "Game Stack"
  /\ ret # None
  /\ \E u \in DOMAIN player_pool \ Range(ret.players) :
        /\ player_pool[u].projection > player_pool[ret.players[6]].projection
        /\ SumOver(player_pool, SubSeq(ret.players, 1, 5), "salary")
             + player_pool[u].salary > salary_cap

Exported == pc = "idle" /\ call.op = "export_to_csv"

\* the n-th entry (from 1) of the given position in the order of selected
NthOfPosition(players, selected, pos, n) ==
  selected[CHOOSE k \in DOMAIN selected :
             /\ players[selected[k]].position = pos
             /\ Cardinality({ j \in 1..(k - 1) :
                                players[selected[j]].position = pos }) = n - 1]

\* C22: for every lineup of six distinct entries that validate_lineup
\* accepts, the exported row has six cells: the first two guards of the
\* lineup in its order, then its first three forwards in its order, then
\* the entry of the lineup placed in none of these five cells.  The row
\* names each entry of the lineup once, and the last-entry fall-back is
\* not what fills the sixth cell unless that entry is the one left over.
C22_ExportRow ==
  Exported =>
    \A k \in DOMAIN call.arg :
       LET lineup == call.arg[k]
           ps     == lineup.players
           row    == ret[k + 1]
           placed == { row[c] : c \in 1..5 }
       IN  (validate_lineup(player_pool, lineup) /\ AllDistinct(player_pool, ps))
             => /\ ret # IndexError
                /\ Len(ret) = Len(call.arg) + 1
                /\ Len(row) = 6
                /\ \A n \in 1..2 :
                     row[n] = player_pool[NthOfPosition(player_pool, ps,
                                                        "G", n)].name
                /\ \A n \in 1..3 :
                     row[2 + n] = player_pool[NthOfPosition(player_pool, ps,
                                                            "F", n)].name
                /\ Cardinality(placed) = 5
                /\ Names(player_pool, ps) \ placed = {row[6]}
                /\ { row[c] : c \in 1..6 } = Names(player_pool, ps)

\* an exported validated lineup whose left-over entry is not its last one
C22_Witness ==
  /\ Exported
  /\ \E k \in DOMAIN call.arg :
        /\ validate_lineup(player_pool, call.arg[k])
        /\ AllDistinct(player_pool, call.arg[k].players)
        /\ ret[k + 1][6] # player_pool[call.arg[k].players[6]].name

Optimized == pc = "idle" /\ call.op = "optimize_for_contest_type"

\* the selection behind the build of a named contest type
ContestSelected(players, contest_type) ==
  CASE contest_type = "GPP"  -> CeilingSelected(players)
    [] contest_type = "Cash" -> BalancedSelected(players)
    [] contest_type = "Single Entry" -> GameStackSelected(players)

\* C23: for GPP, Cash and Single Entry optimize_for_contest_type returns a
\* list of one element whatever lineup_count is: what the Ceiling, Balanced
\* or Game Stack build returns, as it is - None when the selection has
\* fewer than 6 entries, else the lineup without 'strategy' and 'number',
\* whether or not validate_lineup accepts it.  For any other contest type
\* it returns what generate_lineups(lineup_count) returns: the tagged and
\* numbered lineups of the iterations that build a valid lineup, in order.
C23_ContestDispatch ==
  Optimized =>
    LET contest_type == call.arg[1]
        lineup_count == call.arg[2]
    IN  IF contest_type \in DirectContests
        THEN LET selected == ContestSelected(player_pool, contest_type)
             IN  /\ Len(ret) = 1
                 /\ ReturnsSelection(ret[1], selected)
                 /\ ret[1] # None =>
                      /\ DOMAIN ret[1] = {"players", "salary", "projection",
                                          "ownership", "salary_remaining"}
                      /\ ret[1] = create_lineup_object(player_pool, selected)
        ELSE LET made == { k \in 0..(lineup_count - 1) : Succeeds(k) }
             IN  /\ Len(ret) = Cardinality(made)
                 /\ { ret[a].number : a \in DOMAIN ret }
                      = { k + 1 : k \in made }
                 /\ \A a, b \in DOMAIN ret :
                       a < b => ret[a].number < ret[b].number
                 /\ \A a \in DOMAIN ret :
                       ret[a] = Tagged(build_lineup_by_strategy(
                                         loaded, StrategyAt(ret[a].number - 1)),
                                       StrategyAt(ret[a].number - 1),
                                       ret[a].number)

\* a named contest type called with lineup_count above 1 that returned one
\* lineup which validate_lineup rejects
C23_Witness ==
  /\ Optimized
  /\ call.arg[1] \in DirectContests
  /\ call.arg[2] > 1
  /\ Len(ret) = 1
  /\ ret[1] # None
  /\ ~validate_lineup(player_pool, ret[1])

====
